---------------------------- MODULE Spec2Model ----------------------------
(***************************************************************************)
(* Model of MedicalDictionaryScraper (medical_dictionary_scraper.py).      *)
(*                                                                         *)
(* One scraper object is modelled together with a caller that invokes its  *)
(* public operations.  The browser (selenium driver) is an external        *)
(* collaborator: what it answers to a login flow or to a search is chosen  *)
(* nondeterministically from the answers listed below.                     *)
(*                                                                         *)
(* Python strings that the code inspects (page_source, current_url) are    *)
(* sequences of one-character strings, so that `in` is substring search    *)
(* and str.lower() is a character map.                                     *)
(***************************************************************************)
EXTENDS Integers, Sequences, FiniteSets, TLC

VARIABLES
    is_logged_in,   \* self.is_logged_in
    driver,         \* self.driver: "open" after construction, "quit" after driver.quit()
    scope,          \* the `with` block around the scraper: "none", "inside", "exited"
    pc,             \* caller position: "idle", "loop" (inside search_multiple_terms),
                    \* "returned" (search_multiple_terms has returned), "raised"
    exc,            \* the exception propagating to the caller, "none" if there is none
    terms,          \* argument of the current / last search_multiple_terms call
    i,              \* 1-based position of the loop of search_multiple_terms
    results,        \* the dict built (and returned) by search_multiple_terms
    searchLog,      \* history: the search_term calls made by the current / last run
    runLogins,      \* history: number of login() calls made by the current / last run
    loginRet,       \* history: return value of the most recent login() call
    loginTick,      \* history: flips at every login() call
    startAuth,      \* history: is_logged_in when the current / last run started
    prevRunFailed,  \* history: the run before this one returned because its login failed
    response,       \* stand-alone search_term check: the answer the driver will give
    status          \* stand-alone search_term check: the value returned, "none" before

vars == <<is_logged_in, driver, scope, pc, exc, terms, i, results, searchLog,
          runLogins, loginRet, loginTick, startAuth, prevRunFailed, response, status>>

---------------------------------------------------------------------------
(* Bounds *)

\* longest term list passed to search_multiple_terms
MaxTerms == 3

\* most fragments concatenated into one page_source (stand-alone search_term check)
MaxFrags == 2

---------------------------------------------------------------------------
(* Python string operations *)

\* needle in hay
Contains(needle, hay) ==
    \E k \in 0..(Len(hay) - Len(needle)) :
        SubSeq(hay, k + 1, k + Len(needle)) = needle

LowerChar(c) ==
    CASE c = "A" -> "a" [] c = "E" -> "e" [] c = "I" -> "i" [] c = "K" -> "k"
      [] c = "L" -> "l" [] c = "M" -> "m" [] c = "N" -> "n" [] c = "O" -> "o"
      [] c = "R" -> "r" [] c = "S" -> "s" [] c = "T" -> "t" [] c = "U" -> "u"
      [] c = "Y" -> "y" [] c = "Ä" -> "ä" [] c = "Ö" -> "ö"
      [] OTHER -> c

\* s.lower()
lower(s) == [k \in 1..Len(s) |-> LowerChar(s[k])]

---------------------------------------------------------------------------
(* String literals of the source *)

url == <<"h","t","t","p","s",":","/","/","w","w","w",".","t","e","r","v","e","y","s","p","o","r","t","t","i",".","f","i","/","a","p","p","s","/","s","a","n","a","k","i","r","j","a","t","/">>

\* the page of the authentication service the login link leads to
auth_url == <<"h","t","t","p","s",":","/","/","w","w","w",".","t","e","r","v","e","y","s","p","o","r","t","t","i",".","f","i","/","a","p","p","s","/","d","u","o","a","u","t","h","/","a","u","t","h">>

s_sanakirjat == <<"s","a","n","a","k","i","r","j","a","t">>
s_Ei_tuloksia == <<"E","i"," ","t","u","l","o","k","s","i","a">>
s_Yhteensa == <<"Y","h","t","e","e","n","s","ä">>
s_osumaa == <<"o","s","u","m","a","a">>
s_Laaketieteen_termit == <<"L","ä","ä","k","e","t","i","e","t","e","e","n"," ","t","e","r","m","i","t">>
s_termit == <<"t","e","r","m","i","t">>
s_ei_tuloksia == <<"e","i"," ","t","u","l","o","k","s","i","a">>
s_ei_loytynyt == <<"e","i"," ","l","ö","y","t","y","n","y","t">>

---------------------------------------------------------------------------
(* What the browser can answer *)

\* pieces of rendered page text; a page_source is a concatenation of pieces
Fragments ==
    { <<"E","i"," ","t","u","l","o","k","s","i","a">>,
      <<"e","i"," ","t","u","l","o","k","s","i","a">>,
      <<"E","I"," ","T","U","L","O","K","S","I","A">>,
      <<"E","i"," ","t","u","l","o">>,
      <<"k","s","i","a">>,
      <<"Y","h","t","e","e","n","s","ä"," ">>,
      <<"3","0","5"," ","o","s","u","m","a","a">>,
      <<"y","h","t","e","e","n","s","ä">>,
      <<"L","ä","ä","k","e","t","i","e","t","e","e","n"," ","t","e","r","m","i","t">>,
      <<"T","E","R","M","I","T">>,
      <<"E","i"," ","l","ö","y","t","y","n","y","t">>,
      <<"E","I"," ","L","Ö","Y","T","Y","N","Y","T">>,
      <<"Y","h","t","e","e","n","s","ä"," ","3","0","5"," ","o","s","u","m","a","a">>,
      <<"S","y","d","ä","n">> }

RECURSIVE PageSources(_)
\* every page_source made of at most n fragments
PageSources(n) ==
    IF n = 0 THEN { <<>> }
    ELSE LET P == PageSources(n - 1)
         IN  P \cup { p \o f : p \in P, f \in Fragments }

\* outcome of the driver calls of search_term: the page is rendered, or
\* wait.until times out, or some other driver call raises
SearchResponses(d, pages) ==
    IF d = "open"
    THEN { [kind |-> "page", page_source |-> p] : p \in pages }
           \cup { [kind |-> "TimeoutException", page_source |-> <<>>],
                  [kind |-> "WebDriverException", page_source |-> <<>>] }
    ELSE { [kind |-> "WebDriverException", page_source |-> <<>>] }

\* outcome of the driver calls of login: the flow runs to the end and the
\* browser is at current_url, or a wait times out, or a driver call raises
LoginResponses(d) ==
    IF d = "open"
    THEN { [kind |-> "page", current_url |-> u] : u \in {url, auth_url} }
           \cup { [kind |-> "TimeoutException", current_url |-> <<>>],
                  [kind |-> "WebDriverException", current_url |-> <<>>] }
    ELSE { [kind |-> "WebDriverException", current_url |-> <<>>] }

NoResponse == [kind |-> "none", page_source |-> <<>>]

---------------------------------------------------------------------------
(* The methods of MedicalDictionaryScraper *)

\* login() with the flag assigned before current_url is checked
loginFlagBeforeUrlCheck(flag, resp) ==
    IF resp.kind = "page"
    THEN IF Contains(s_sanakirjat, resp.current_url)
         THEN [is_logged_in |-> TRUE, ret |-> "True", exc |-> "none"]
         ELSE [is_logged_in |-> TRUE, ret |-> "False", exc |-> "none"]
    ELSE [is_logged_in |-> flag, ret |-> "False", exc |-> "none"]

\* login() with the flag assigned on entry, before the login flow is driven
loginFlagAtEntry(flag, resp) ==
    IF resp.kind = "page" /\ Contains(s_sanakirjat, resp.current_url)
    THEN [is_logged_in |-> TRUE, ret |-> "True", exc |-> "none"]
    ELSE [is_logged_in |-> TRUE, ret |-> "False", exc |-> "none"]

\* login(): the new flag, the return value and the exception it lets escape
login(flag, resp) ==
    IF resp.kind = "page"
    THEN IF Contains(s_sanakirjat, resp.current_url)
         THEN [is_logged_in |-> TRUE, ret |-> "True", exc |-> "none"]
         ELSE [is_logged_in |-> flag, ret |-> "False", exc |-> "none"]
    ELSE \* except Exception
         [is_logged_in |-> flag, ret |-> "False", exc |-> "none"]

\* the checks of search_term with the "Yhteensä ... osumaa" check made first
ClassifyTotalFirst(page_source) ==
    IF Contains(s_Yhteensa, page_source) /\ Contains(s_osumaa, page_source)
    THEN "found"
    ELSE IF Contains(s_Ei_tuloksia, page_source) THEN "not found"
    ELSE IF Contains(s_Laaketieteen_termit, page_source)
            \/ Contains(s_termit, lower(page_source))
         THEN "found"
    ELSE LET page_source_lower == lower(page_source)
         IN  IF Contains(s_ei_tuloksia, page_source_lower)
                \/ Contains(s_ei_loytynyt, page_source_lower)
             THEN "not found"
             ELSE "found"

\* the checks of search_term with "not found" as the final default
ClassifyDefaultNotFound(page_source) ==
    IF Contains(s_Ei_tuloksia, page_source) THEN "not found"
    ELSE IF Contains(s_Yhteensa, page_source) /\ Contains(s_osumaa, page_source)
         THEN "found"
    ELSE IF Contains(s_Laaketieteen_termit, page_source)
            \/ Contains(s_termit, lower(page_source))
         THEN "found"
    ELSE "not found"

\* the checks search_term makes on page_source
ClassifyPageSource(page_source) ==
    IF Contains(s_Ei_tuloksia, page_source) THEN "not found"
    ELSE IF Contains(s_Yhteensa, page_source) /\ Contains(s_osumaa, page_source)
         THEN "found"
    ELSE IF Contains(s_Laaketieteen_termit, page_source)
            \/ Contains(s_termit, lower(page_source))
         THEN "found"
    ELSE LET page_source_lower == lower(page_source)
         IN  IF Contains(s_ei_tuloksia, page_source_lower)
                \/ Contains(s_ei_loytynyt, page_source_lower)
             THEN "not found"
             ELSE "found"

\* search_term with `except TimeoutException` as its only handler
search_termTimeoutOnly(resp) ==
    IF resp.kind = "page"
    THEN [ret |-> ClassifyPageSource(resp.page_source), exc |-> "none"]
    ELSE IF resp.kind = "TimeoutException"
         THEN [ret |-> "error", exc |-> "none"]
         ELSE [ret |-> "none", exc |-> resp.kind]

\* search_term(term): the return value, and the exception it lets escape
search_term(resp) ==
    IF resp.kind = "page"
    THEN [ret |-> ClassifyPageSource(resp.page_source), exc |-> "none"]
    ELSE IF resp.kind = "TimeoutException"
         THEN [ret |-> "error", exc |-> "none"]
         ELSE \* except Exception
              [ret |-> "error", exc |-> "none"]

\* what one search_term call can come to, by the state of the driver: the kind
\* of answer the driver gave, the value returned and the exception let through
SearchOutcome(resp) ==
    LET r == search_term(resp)
    IN  [kind |-> resp.kind, ret |-> r.ret, exc |-> r.exc]

SearchOutcomesOpen == { SearchOutcome(resp) : resp \in SearchResponses("open", PageSources(1)) }

SearchOutcomesQuit == { SearchOutcome(resp) : resp \in SearchResponses("quit", PageSources(1)) }

SearchOutcomes(d) == IF d = "open" THEN SearchOutcomesOpen ELSE SearchOutcomesQuit

\* search_multiple_terms logging in at every call
NeedsLoginAlways(flag) == TRUE

\* line 176: search_multiple_terms logs in only if the flag is not set
NeedsLogin(flag) == ~flag

\* an empty dict returned when the login failed
ErrorResultsEmpty(ts) == [t \in {} |-> "error"]

\* line 179: the dict returned when the login failed
ErrorResults(ts) == [t \in {ts[k] : k \in 1..Len(ts)} |-> "error"]

\* line 181: results = {}
EmptyResults == [t \in {} |-> "error"]

RECURSIVE enumerateDistinct(_)
\* the loop visiting each distinct term once, at its first occurrence
enumerateDistinct(ts) ==
    IF ts = <<>> THEN <<>>
    ELSE LET front == enumerateDistinct(SubSeq(ts, 1, Len(ts) - 1))
             last  == ts[Len(ts)]
         IN  IF \E k \in 1..Len(front) : front[k] = last
             THEN front
             ELSE Append(front, last)

\* line 183: the loop visits the list as given, position by position
enumerate(ts) == ts

\* results.setdefault(term, status): an earlier entry is kept
StoreResultFirst(res, term, st) ==
    [t \in (DOMAIN res) \cup {term} |-> IF t \in DOMAIN res THEN res[t] ELSE st]

\* line 186: results[term] = status
StoreResult(res, term, st) ==
    [t \in (DOMAIN res) \cup {term} |-> IF t = term THEN st ELSE res[t]]

\* close(): self.driver stays set, so every call reaches driver.quit()
close(d) == "quit"

\* __exit__ closing only when the block ended without an exception
exitOnSuccessOnly(d, exc_type) == IF exc_type = "none" THEN close(d) ELSE d

\* __exit__(exc_type, exc_val, exc_tb): the driver after leaving the block
exit(d, exc_type) == close(d)

---------------------------------------------------------------------------
(* The caller *)

\* the example terms of main()
Terms == {"Kirjasto", "lääkäri"}

TermLists == UNION { [1..n -> Terms] : n \in 0..MaxTerms }

\* the caller is between two calls
Ready == pc \in {"idle", "returned"} /\ exc = "none"

\* __init__ has run
Init ==
    /\ is_logged_in = FALSE
    /\ driver = "open"
    /\ scope = "none"
    /\ pc = "idle"
    /\ exc = "none"
    /\ terms = <<>>
    /\ i = 1
    /\ results = EmptyResults
    /\ searchLog = <<>>
    /\ runLogins = 0
    /\ loginRet = "none"
    /\ loginTick = FALSE
    /\ startAuth = FALSE
    /\ prevRunFailed = FALSE
    /\ response = NoResponse
    /\ status = "none"

\* the locals and the return value of a finished search_multiple_terms call
\* are gone once the caller makes its next call
RunForgotten ==
    /\ terms' = <<>>
    /\ i' = 1
    /\ results' = EmptyResults
    /\ searchLog' = <<>>
    /\ runLogins' = 0
    /\ startAuth' = FALSE
    /\ prevRunFailed' = FALSE

\* a direct call of login()
Login ==
    /\ Ready
    /\ \E resp \in LoginResponses(driver) :
         LET r == login(is_logged_in, resp)
         IN  /\ is_logged_in' = r.is_logged_in
             /\ loginRet' = r.ret
             /\ exc' = r.exc
             /\ pc' = IF r.exc = "none" THEN "idle" ELSE "raised"
    /\ loginTick' = ~loginTick
    /\ RunForgotten
    /\ UNCHANGED <<driver, scope, response, status>>

\* a direct call of search_term(term); the caller does not keep the value
SearchTerm ==
    /\ Ready
    /\ \E r \in SearchOutcomes(driver) :
         /\ exc' = r.exc
         /\ pc' = IF r.exc = "none" THEN "idle" ELSE "raised"
    /\ RunForgotten
    /\ UNCHANGED <<is_logged_in, driver, scope, loginRet, loginTick, response, status>>

\* search_multiple_terms(ts), lines 175-181: the login check, up to the loop
RunBegin ==
    /\ Ready
    /\ \E ts \in TermLists :
         /\ terms' = ts
         /\ IF NeedsLogin(is_logged_in)
            THEN \E resp \in LoginResponses(driver) :
                   LET r == login(is_logged_in, resp)
                   IN  /\ is_logged_in' = r.is_logged_in
                       /\ loginRet' = r.ret
                       /\ loginTick' = ~loginTick
                       /\ runLogins' = 1
                       /\ exc' = r.exc
                       /\ IF r.exc # "none"
                          THEN /\ results' = EmptyResults
                               /\ pc' = "raised"
                          ELSE IF r.ret = "False"
                          THEN /\ results' = ErrorResults(ts)
                               /\ pc' = "returned"
                          ELSE /\ results' = EmptyResults
                               /\ pc' = "loop"
            ELSE /\ results' = EmptyResults
                 /\ pc' = "loop"
                 /\ runLogins' = 0
                 /\ UNCHANGED <<is_logged_in, loginRet, loginTick, exc>>
    /\ i' = 1
    /\ searchLog' = <<>>
    /\ startAuth' = is_logged_in
    /\ prevRunFailed' = (pc = "returned" /\ loginRet = "False" /\ runLogins > 0)
    /\ UNCHANGED <<driver, scope, response, status>>

\* one iteration of the loop, lines 183-189
RunIter ==
    /\ pc = "loop"
    /\ i <= Len(enumerate(terms))
    /\ LET term == enumerate(terms)[i]
       IN  \E r \in SearchOutcomes(driver) :
             /\ searchLog' = Append(searchLog,
                    [term |-> term, kind |-> r.kind, ret |-> r.ret, exc |-> r.exc])
             /\ IF r.exc = "none"
                THEN /\ results' = StoreResult(results, term, r.ret)
                     /\ i' = i + 1
                     /\ UNCHANGED <<pc, exc>>
                ELSE /\ pc' = "raised"
                     /\ exc' = r.exc
                     /\ UNCHANGED <<results, i>>
    /\ UNCHANGED <<is_logged_in, driver, scope, terms, runLogins, loginRet, loginTick,
                   startAuth, prevRunFailed, response, status>>

\* line 191: the loop is over, return results
RunReturn ==
    /\ pc = "loop"
    /\ i > Len(enumerate(terms))
    /\ pc' = "returned"
    /\ UNCHANGED <<is_logged_in, driver, scope, exc, terms, i, results, searchLog,
                   runLogins, loginRet, loginTick, startAuth, prevRunFailed,
                   response, status>>

\* the body of the caller's block raises during the batch: an exception that
\* is not an Exception subclass (KeyboardInterrupt) passes every `except Exception`
Interrupt ==
    /\ pc = "loop"
    /\ pc' = "raised"
    /\ exc' = "KeyboardInterrupt"
    /\ UNCHANGED <<is_logged_in, driver, scope, terms, i, results, searchLog, runLogins,
                   loginRet, loginTick, startAuth, prevRunFailed, response, status>>

\* a direct call of close()
Close ==
    /\ Ready
    /\ driver' = close(driver)
    /\ pc' = "idle"
    /\ RunForgotten
    /\ UNCHANGED <<is_logged_in, scope, exc, loginRet, loginTick, response, status>>

\* `with MedicalDictionaryScraper(...) as scraper:` is entered
Enter ==
    /\ scope = "none"
    /\ pc = "idle"
    /\ exc = "none"
    /\ scope' = "inside"
    /\ UNCHANGED <<is_logged_in, driver, pc, exc, terms, i, results, searchLog, runLogins,
                   loginRet, loginTick, startAuth, prevRunFailed, response, status>>

\* the block is left, by falling off its end or by an exception: __exit__ runs,
\* returns None, and an exception keeps propagating
Exit ==
    /\ scope = "inside"
    /\ Ready \/ pc = "raised"
    /\ driver' = exit(driver, exc)
    /\ scope' = "exited"
    /\ UNCHANGED <<is_logged_in, pc, exc, terms, i, results, searchLog, runLogins,
                   loginRet, loginTick, startAuth, prevRunFailed, response, status>>

Next ==
    \/ Login
    \/ SearchTerm
    \/ RunBegin
    \/ RunIter
    \/ RunReturn
    \/ Interrupt
    \/ Close
    \/ Enter
    \/ Exit

Spec == Init /\ [][Next]_vars

---------------------------------------------------------------------------
(* search_term on its own, against a driver whose answer is fixed beforehand *)

InitSearch ==
    /\ is_logged_in = FALSE
    /\ driver = "open"
    /\ scope = "none"
    /\ pc = "idle"
    /\ exc = "none"
    /\ terms = <<>>
    /\ i = 1
    /\ results = EmptyResults
    /\ searchLog = <<>>
    /\ runLogins = 0
    /\ loginRet = "none"
    /\ loginTick = FALSE
    /\ startAuth = FALSE
    /\ prevRunFailed = FALSE
    /\ response \in SearchResponses(driver, PageSources(MaxFrags))
    /\ status = "none"

\* search_term(term) with the driver answering `response`
SearchTermCanned ==
    /\ pc = "idle"
    /\ status = "none"
    /\ LET r == search_term(response)
       IN  IF r.exc = "none"
           THEN /\ status' = r.ret
                /\ UNCHANGED <<pc, exc>>
           ELSE /\ pc' = "raised"
                /\ exc' = r.exc
                /\ UNCHANGED status
    /\ UNCHANGED <<is_logged_in, driver, scope, terms, i, results, searchLog, runLogins,
                   loginRet, loginTick, startAuth, prevRunFailed, response>>

NextSearch == SearchTermCanned

SpecSearch == InitSearch /\ [][NextSearch]_vars

---------------------------------------------------------------------------
(* Properties of search_multiple_terms, login and close (specification Spec) *)

Labels == {"found", "not found", "error"}

TermSet(ts) == { ts[k] : k \in 1..Len(ts) }

\* the terms of the search_term calls logged so far, in call order
SearchedTerms == [k \in 1..Len(searchLog) |-> searchLog[k].term]

\* the current / last run got past the login check
RunAuthenticated == startAuth \/ (runLogins > 0 /\ loginRet = "True")

\* the current / last run started unauthenticated and its login() returned False
RunLoginFailed == ~startAuth /\ runLogins > 0 /\ loginRet = "False"

\* the last search_term call made for term t in the current / last run
LastSearchOf(t) ==
    LET K == { k \in 1..Len(searchLog) : searchLog[k].term = t }
    IN  searchLog[CHOOSE k \in K : \A j \in K : j <= k]

\* C1: when a run starts unauthenticated and its login() returns False, the
\* returned dict has exactly the distinct input terms as keys, every value is
\* "error", and the run made no search_term call.
C1_LoginFailureAllError ==
    (pc = "returned" /\ RunLoginFailed)
        => /\ DOMAIN results = TermSet(terms)
           /\ \A t \in DOMAIN results : results[t] = "error"
           /\ searchLog = <<>>

C1_Witness ==
    /\ pc = "returned" /\ RunLoginFailed
    /\ Len(terms) = 2 /\ terms[1] = terms[2]
    /\ DOMAIN results = {terms[1]}
    /\ results[terms[1]] = "error"

\* C2: on an authenticated session the returned dict has exactly one entry per
\* distinct input term, and the entry of a term is the return value of the
\* search made for the last occurrence of that term.
C2_LastWriteWins ==
    (pc = "returned" /\ RunAuthenticated)
        => /\ DOMAIN results = TermSet(terms)
           /\ \A t \in TermSet(terms) :
                /\ \E k \in 1..Len(searchLog) : searchLog[k].term = t
                /\ results[t] = LastSearchOf(t).ret

C2_Witness ==
    /\ pc = "returned" /\ RunAuthenticated
    /\ Len(terms) = 2 /\ terms[1] = terms[2]
    /\ Len(searchLog) = 2
    /\ searchLog[1].ret = "found" /\ searchLog[2].ret = "not found"
    /\ results[terms[1]] = "not found"

\* C3: is_logged_in starts false; a step changes it only from false to true and
\* only by a login() call that returns True; a login() call that returns False
\* leaves it as it was; nothing sets it back to false.
C3_FlagOnlySetByLogin ==
    /\ is_logged_in = FALSE
    /\ [][ /\ (is_logged_in' # is_logged_in
                  => /\ is_logged_in = FALSE
                     /\ is_logged_in' = TRUE
                     /\ loginTick' # loginTick
                     /\ loginRet' = "True")
           /\ (loginTick' # loginTick /\ loginRet' = "False"
                  => is_logged_in' = is_logged_in)
           /\ (is_logged_in => is_logged_in') ]_vars

\* a failed login on a session that is already logged in, after a close()
C3_Witness ==
    /\ is_logged_in
    /\ loginRet = "False"
    /\ driver = "quit"
    /\ pc = "idle"

\* C4: a run calls login() only if it starts with the flag false: a run that
\* starts authenticated makes no login() call, and no login() call made on an
\* authenticated session is made by a run.
C4_NoLoginOnceAuthenticated ==
    /\ [](pc \in {"loop", "returned"} => (runLogins > 0 <=> ~startAuth))
    /\ [][is_logged_in /\ loginTick' # loginTick => runLogins' = 0]_vars

C4_Witness ==
    /\ pc = "returned"
    /\ startAuth
    /\ runLogins = 0
    /\ Len(terms) > 0
    /\ Len(searchLog) = Len(terms)

C8_OneAttemptPerPosition ==
    /\ runLogins <= 1
    /\ pc \in {"loop", "returned"}
         => /\ i - 1 <= Len(terms)
            /\ SearchedTerms = SubSeq(terms, 1, i - 1)
    /\ pc = "returned" /\ RunAuthenticated => i = Len(terms) + 1

C8_Witness ==
    /\ pc = "returned" /\ RunAuthenticated
    /\ runLogins = 1
    /\ Len(terms) = 3 /\ terms[1] = terms[2] /\ terms[2] # terms[3]
    /\ Len(searchLog) = 3
    /\ searchLog[1].ret = "error"
    /\ searchLog[2].ret = "found"

\* C9: once the `with` block has been left, normally or by an exception, the
\* driver has been quit.
C9_ScopeReleasesDriver ==
    scope = "exited" => driver = "quit"

C9_Witness ==
    /\ scope = "exited"
    /\ pc = "raised"
    /\ exc = "KeyboardInterrupt"
    /\ driver = "quit"

\* C10: a run whose login failed leaves the flag false; the run made right
\* after it calls login() again, once; if that login succeeds the run searches
\* every term and the flag is set, and a set flag is never cleared.
C10_FailedLoginNotLatched ==
    /\ [](pc = "returned" /\ RunLoginFailed => ~is_logged_in)
    /\ [](prevRunFailed => runLogins = 1 /\ ~startAuth)
    /\ [](prevRunFailed /\ pc = "returned" /\ loginRet = "True"
            => is_logged_in /\ SearchedTerms = terms /\ DOMAIN results = TermSet(terms))
    /\ [][is_logged_in => is_logged_in']_vars

C10_Witness ==
    /\ prevRunFailed
    /\ pc = "returned"
    /\ loginRet = "True"
    /\ is_logged_in
    /\ Len(terms) = 2
    /\ SearchedTerms = terms
    /\ results[terms[1]] = "found"

---------------------------------------------------------------------------
(* Properties of search_term (specification SpecSearch) *)

\* the conditions of the four rules, as the claim states them
RuleHolds(k, p) ==
    CASE k = 1 -> Contains(s_Ei_tuloksia, p)
      [] k = 2 -> Contains(s_Yhteensa, p) /\ Contains(s_osumaa, p)
      [] k = 3 -> Contains(s_termit, lower(p))
      [] k = 4 -> Contains(s_ei_tuloksia, lower(p)) \/ Contains(s_ei_loytynyt, lower(p))

RuleLabel(k) == IF k \in {1, 4} THEN "not found" ELSE "found"

\* search_term has returned for a page the driver rendered
Classified == status # "none" /\ response.kind = "page"

\* C6: the value returned for a page is the label of the earliest of the rules
\* 1-4 whose condition holds; a page with both "Ei tuloksia" and
\* "Yhteensä ... osumaa" is "not found".
C6_FirstMatchWins ==
    Classified =>
        LET p == response.page_source
        IN  /\ \A k \in 1..4 :
                 (RuleHolds(k, p) /\ \A j \in 1..(k - 1) : ~RuleHolds(j, p))
                     => status = RuleLabel(k)
            /\ (RuleHolds(1, p) /\ RuleHolds(2, p)) => status = "not found"

C6_Witness ==
    /\ Classified
    /\ RuleHolds(1, response.page_source)
    /\ RuleHolds(2, response.page_source)
    /\ status = "not found"

\* the markers of C7 read literally: the phrases "Ei tuloksia", "ei tuloksia"
\* and "ei löytynyt" as written, "termit" in any letter case
NoMarkerAsWritten(p) ==
    /\ ~Contains(s_Ei_tuloksia, p)
    /\ ~Contains(s_ei_tuloksia, p)
    /\ ~Contains(s_ei_loytynyt, p)
    /\ ~(Contains(s_Yhteensa, p) /\ Contains(s_osumaa, p))
    /\ ~Contains(s_termit, lower(p))

\* the same, with "ei tuloksia" and "ei löytynyt" absent in every letter case
NoMarkerAnyCase(p) ==
    /\ ~Contains(s_Ei_tuloksia, p)
    /\ ~Contains(s_ei_tuloksia, lower(p))
    /\ ~Contains(s_ei_loytynyt, lower(p))
    /\ ~(Contains(s_Yhteensa, p) /\ Contains(s_osumaa, p))
    /\ ~Contains(s_termit, lower(p))

\* C7 as stated: a retrieved page with none of the markers as written is "found".
C7_DefaultFoundAsWritten ==
    (Classified /\ NoMarkerAsWritten(response.page_source)) => status = "found"

\* C7: a retrieved page that has no "Ei tuloksia", no "ei tuloksia" or
\* "ei löytynyt" in any letter case, not both "Yhteensä" and "osumaa", and no
\* "termit" in any letter case is "found".
C7_DefaultFound ==
    (Classified /\ NoMarkerAnyCase(response.page_source)) => status = "found"

C7_Witness ==
    /\ Classified
    /\ NoMarkerAnyCase(response.page_source)
    /\ Contains(s_Yhteensa, response.page_source)
    /\ status = "found"

====
